---- MODULE Spec2Model ----
(***************************************************************************)
(* Order status engine of the admin dashboard (src/app.py).                *)
(*                                                                         *)
(* The store is the `orders` table and the `payments` table; the           *)
(* operations are the Flask handlers admin_login, admin_logout,            *)
(* get_order_status, update_order_status, update_payment_details and the   *)
(* pages and modals that only read.                                        *)
(* update_order_status talks to the database twice (SELECT, then           *)
(* UPDATE+commit) and holds no lock in between, so it is modelled as two   *)
(* steps per request: UpdateRequest (gate, parse, SELECT, validate) and    *)
(* UpdateWrite (UPDATE, commit, reply); update_payment_details likewise    *)
(* (PayRequest, PayWrite).  Spec runs the status operations one request at *)
(* a time, TwoOrdersSpec runs update_order_status with two orders on file, *)
(* AppSpec adds the payment operation and the reading pages, AnyStatusSpec *)
(* runs the same on an order whose status column may hold anything,        *)
(* SessionSpec runs logins with any credentials around the protected       *)
(* operations, and ConcSpec and PayConcSpec interleave the steps of        *)
(* concurrent requests.                                                    *)
(*                                                                         *)
(* last is the record of the request handled last: what was asked, which   *)
(* storage accesses it made and the reply.  seen[o] is a history variable: *)
(* the statuses order o has held.  session is the Flask session of the one *)
(* browser that talks to the server: the keys admin_logged_in, admin_email *)
(* and login_time written by admin_login and the list _flashes that        *)
(* flash() appends to.  The templates that would show (and so remove) the  *)
(* flashed messages are not part of the source; the list is only emptied   *)
(* by session.clear().  Console output is not modelled; of a payment       *)
(* record only the order id, the amount, the payment_status and the        *)
(* transaction_id are.                                                     *)
(*                                                                         *)
(* Values that may be None / NULL / JSON null are wrapped: None is <<>>    *)
(* and a present value x is <<x>>.  A dict is a function on its keys.      *)
(***************************************************************************)
EXTENDS Integers, Sequences, FiniteSets, TLC

VARIABLES orders, payments, session, now, req, last, seen

vars == <<orders, payments, session, now, req, last, seen>>

(***************************************************************************)
(* Bounds                                                                  *)
(***************************************************************************)
NumOrders == 1
NumWorkers == 2
MaxClock == 2
MaxFlashes == 2

StoredIds == 1..NumOrders
RequestIds == 1..(NumOrders + 1)
Workers == 1..NumWorkers

(***************************************************************************)
(* Python / JSON / SQL values                                              *)
(***************************************************************************)
None == <<>>

Some(x) == <<x>>

Truthy(v) == v # None /\ v[1] # ""

DictGet(d, k, default) == IF k \in DOMAIN d THEN d[k] ELSE default

ListContains(list, x) == \E i \in DOMAIN list : list[i] = x

Statuses == {"pending", "confirmed", "assigned", "out_for_delivery", "delivered", "cancelled"}

Terminal == {"delivered", "cancelled"}

(***************************************************************************)
(* The transition table of update_order_status                             *)
(***************************************************************************)
\* mutants of the table: the delivered edge lost, an edge out of delivered,
\* a cancelled order reopened, a skip from pending to assigned
allowed_transitions_noDeliver ==
    [pending |-> <<"confirmed", "cancelled">>,
     confirmed |-> <<"assigned", "cancelled">>,
     assigned |-> <<"out_for_delivery", "cancelled">>,
     out_for_delivery |-> <<"cancelled">>,
     delivered |-> <<>>,
     cancelled |-> <<>>]

allowed_transitions_cancelDelivered ==
    [pending |-> <<"confirmed", "cancelled">>,
     confirmed |-> <<"assigned", "cancelled">>,
     assigned |-> <<"out_for_delivery", "cancelled">>,
     out_for_delivery |-> <<"delivered", "cancelled">>,
     delivered |-> <<"cancelled">>,
     cancelled |-> <<>>]

allowed_transitions_reopen ==
    [pending |-> <<"confirmed", "cancelled">>,
     confirmed |-> <<"assigned", "cancelled">>,
     assigned |-> <<"out_for_delivery", "cancelled">>,
     out_for_delivery |-> <<"delivered", "cancelled">>,
     delivered |-> <<>>,
     cancelled |-> <<"pending">>]

allowed_transitions_skip ==
    [pending |-> <<"confirmed", "assigned", "cancelled">>,
     confirmed |-> <<"assigned", "cancelled">>,
     assigned |-> <<"out_for_delivery", "cancelled">>,
     out_for_delivery |-> <<"delivered", "cancelled">>,
     delivered |-> <<>>,
     cancelled |-> <<>>]

\* mutant of the table: an assigned order can be sent back to confirmed
allowed_transitions_unassign ==
    [pending |-> <<"confirmed", "cancelled">>,
     confirmed |-> <<"assigned", "cancelled">>,
     assigned |-> <<"out_for_delivery", "confirmed", "cancelled">>,
     out_for_delivery |-> <<"delivered", "cancelled">>,
     delivered |-> <<>>,
     cancelled |-> <<>>]

\* mutant of the table: a status outside the enumeration becomes reachable
allowed_transitions_refund ==
    [pending |-> <<"confirmed", "cancelled">>,
     confirmed |-> <<"assigned", "cancelled">>,
     assigned |-> <<"out_for_delivery", "cancelled">>,
     out_for_delivery |-> <<"delivered", "cancelled">>,
     delivered |-> <<"refunded">>,
     cancelled |-> <<>>]

allowed_transitions ==
    [pending |-> <<"confirmed", "cancelled">>,
     confirmed |-> <<"assigned", "cancelled">>,
     assigned |-> <<"out_for_delivery", "cancelled">>,
     out_for_delivery |-> <<"delivered", "cancelled">>,
     delivered |-> <<>>,
     cancelled |-> <<>>]

\* mutants of the table of get_order_status: delivered is offered out of
\* pending, cancelled is not offered out of assigned
status_flow_offersDelivered ==
    [pending |-> <<"confirmed", "delivered", "cancelled">>,
     confirmed |-> <<"assigned", "cancelled">>,
     assigned |-> <<"out_for_delivery", "cancelled">>,
     out_for_delivery |-> <<"delivered", "cancelled">>,
     delivered |-> <<>>,
     cancelled |-> <<>>]

status_flow_noCancel ==
    [pending |-> <<"confirmed", "cancelled">>,
     confirmed |-> <<"assigned", "cancelled">>,
     assigned |-> <<"out_for_delivery">>,
     out_for_delivery |-> <<"delivered", "cancelled">>,
     delivered |-> <<>>,
     cancelled |-> <<>>]

\* The table of get_order_status
status_flow ==
    [pending |-> <<"confirmed", "cancelled">>,
     confirmed |-> <<"assigned", "cancelled">>,
     assigned |-> <<"out_for_delivery", "cancelled">>,
     out_for_delivery |-> <<"delivered", "cancelled">>,
     delivered |-> <<>>,
     cancelled |-> <<>>]

\* mutant of the table of order_detail: confirmed has a third successor
status_flow_detail_backToPending ==
    [pending |-> <<"confirmed", "cancelled">>,
     confirmed |-> <<"assigned", "cancelled", "pending">>,
     assigned |-> <<"out_for_delivery", "cancelled">>,
     out_for_delivery |-> <<"delivered", "cancelled">>,
     delivered |-> <<>>,
     cancelled |-> <<>>]

\* The table of order_detail (its local status_flow)
status_flow_detail ==
    [pending |-> <<"confirmed", "cancelled">>,
     confirmed |-> <<"assigned", "cancelled">>,
     assigned |-> <<"out_for_delivery", "cancelled">>,
     out_for_delivery |-> <<"delivered", "cancelled">>,
     delivered |-> <<>>,
     cancelled |-> <<>>]

\* mutant: a status without a row in the table is treated as pending
AllowedFrom_defaultsToPending(current_status) ==
    IF current_status # None /\ current_status[1] \in DOMAIN allowed_transitions
    THEN allowed_transitions[current_status[1]]
    ELSE allowed_transitions["pending"]

\* allowed_transitions.get(current_status, [])
AllowedFrom(current_status) ==
    IF current_status # None /\ current_status[1] \in DOMAIN allowed_transitions
    THEN allowed_transitions[current_status[1]]
    ELSE <<>>

\* status_flow.get(current_status, [])
AvailableFrom(current_status) ==
    IF current_status # None /\ current_status[1] \in DOMAIN status_flow
    THEN status_flow[current_status[1]]
    ELSE <<>>

\* status_flow.get(order['status'], []) of order_detail
DetailAvailableFrom(current_status) ==
    IF current_status # None /\ current_status[1] \in DOMAIN status_flow_detail
    THEN status_flow_detail[current_status[1]]
    ELSE <<>>

(***************************************************************************)
(* Sessions and login                                                      *)
(***************************************************************************)
\* A form string is a sequence of symbols; " " is whitespace.
IsSpace(c) == c = " "

RECURSIVE LStrip(_)
LStrip(s) == IF s # <<>> /\ IsSpace(Head(s)) THEN LStrip(Tail(s)) ELSE s

RECURSIVE RStrip(_)
RStrip(s) ==
    IF s # <<>> /\ IsSpace(s[Len(s)]) THEN RStrip(SubSeq(s, 1, Len(s) - 1)) ELSE s

\* str.strip()
Strip(s) == RStrip(LStrip(s))

valid_logins ==
    << <<<<"admin@bitemebuddy.com">>, <<"admin123">>>>,
       <<<<"admin@example.com">>, <<"password123">>>>,
       <<<<"admin">>, <<"admin">>>>,
       <<<<"test@test.com">>, <<"test123">>>>,
       <<<<"user@example.com">>, <<"user123">>>>,
       <<<<"super@admin.com">>, <<"super123">>>> >>

\* mutant: the email and the password are looked up independently
verify_admin_credentials_mixedPair(email, password) ==
    \E i \in DOMAIN valid_logins, j \in DOMAIN valid_logins :
        email = valid_logins[i][1] /\ password = valid_logins[j][2]

verify_admin_credentials(email, password) ==
    \E i \in DOMAIN valid_logins :
        email = valid_logins[i][1] /\ password = valid_logins[i][2]

\* 'admin_logged_in' in session and session['admin_logged_in']
LoggedIn(sess) == "admin_logged_in" \in DOMAIN sess /\ sess["admin_logged_in"]

\* session.get('_flashes', [])
Flashes(sess) == DictGet(sess, "_flashes", <<>>)

\* flash(message, category): appends (category, message) to session['_flashes']
Flash(sess, message, category) ==
    [k \in DOMAIN sess \cup {"_flashes"} |->
        IF k = "_flashes" THEN Append(Flashes(sess), <<category, message>>) ELSE sess[k]]

\* the list of flashed messages is kept within the bound
WithinFlashBound(sess) == Len(Flashes(sess)) <= MaxFlashes

\* the session after the decorator admin_login_required: it flashes when it
\* turns the request away
admin_login_required(sess) ==
    IF ~LoggedIn(sess)
    THEN Flash(sess, "Please login as admin to access this page", "error")
    ELSE sess

(***************************************************************************)
(* Requests and replies                                                    *)
(***************************************************************************)
Idle == [pc |-> "idle"]

\* what a client asked: the route, the order id of the URL and, for an update
\* whose body the handler read, the kind of body and the status data.get reads
\* from it; PlainRequest is a request whose body is not on record
RequestOf(op, order_id, body_kind, status) ==
    [op |-> op, order_id |-> order_id, body_kind |-> body_kind, status |-> status]

PlainRequest(op, order_id) == RequestOf(op, order_id, "-", None)

\* a POST of the login form: request.form['email'] and request.form['password']
LoginRequest(form_email, form_password) ==
    [op |-> "login", order_id |-> 0, body_kind |-> "form", status |-> None,
     email |-> form_email, password |-> form_password]

\* jsonify(...) with its HTTP code, or a redirect
Reply(code, message, current_status, new_status, available_statuses) ==
    [code |-> code, message |-> message, current_status |-> current_status,
     new_status |-> new_status, available_statuses |-> available_statuses]

\* db: the storage accesses of the request, "none" when it made none
Handled(request, db, reply) == [request |-> request, db |-> db, reply |-> reply]

NothingHandled == Handled(PlainRequest("none", 0), "none", Reply(0, "", None, None, <<>>))

\* redirect(url_for('admin_login')) of admin_login_required
LoginRedirect == Reply(302, "Please login as admin to access this page", None, None, <<>>)

\* the except branch: jsonify(success False, message str(e)), 500
ExceptionReply == Reply(500, "exception", None, None, <<>>)

\* request.get_json() followed by data.get: raises unless the body is an object
ParsedStatus(body) ==
    IF body.kind = "object" THEN DictGet(body.data, "status", None) ELSE None

ParsedNotes(body) ==
    IF body.kind = "object" THEN DictGet(body.data, "notes", Some("")) ELSE None

UpdateRequestOf(order_id, body) ==
    RequestOf("update", order_id, body.kind, ParsedStatus(body))

\* mutant: the stamp is taken when the order ends, delivered or cancelled
UpdateData_stampTerminal(new_status, notes, t) ==
    LET keys == {"status"}
                \cup (IF new_status \in {Some("delivered"), Some("cancelled")}
                      THEN {"delivery_date"} ELSE {})
                \cup (IF Truthy(notes) THEN {"notes"} ELSE {})
    IN [k \in keys |->
            CASE k = "status" -> new_status
              [] k = "delivery_date" -> Some(t)
              [] k = "notes" -> notes]

\* mutant: the stamp is taken for every target status
UpdateData_stampAll(new_status, notes, t) ==
    LET keys == {"status", "delivery_date"}
                \cup (IF Truthy(notes) THEN {"notes"} ELSE {})
    IN [k \in keys |->
            CASE k = "status" -> new_status
              [] k = "delivery_date" -> Some(t)
              [] k = "notes" -> notes]

\* update_data as built by update_order_status once the transition is valid
UpdateData(new_status, notes, t) ==
    LET keys == {"status"}
                \cup (IF new_status = Some("delivered") THEN {"delivery_date"} ELSE {})
                \cup (IF Truthy(notes) THEN {"notes"} ELSE {})
    IN [k \in keys |->
            CASE k = "status" -> new_status
              [] k = "delivery_date" -> Some(t)
              [] k = "notes" -> notes]

\* mutant: the statement sets the status column only
SqlUpdate_statusOnly(table, order_id, update_data) ==
    [o \in DOMAIN table |->
        IF o = order_id
        THEN [table[o] EXCEPT !.status = update_data["status"]]
        ELSE table[o]]

\* mutant: the statement has no WHERE clause
SqlUpdate_everyOrder(table, order_id, update_data) ==
    [o \in DOMAIN table |->
        [c \in DOMAIN table[o] |->
            IF c \in DOMAIN update_data THEN update_data[c] ELSE table[o][c]]]

\* mutant: the note is appended to the stored notes
SqlUpdate_appendNotes(table, order_id, update_data) ==
    [o \in DOMAIN table |->
        IF o = order_id
        THEN [c \in DOMAIN table[o] |->
                 IF c \in DOMAIN update_data
                 THEN IF c = "notes" THEN table[o][c] \o update_data[c] ELSE update_data[c]
                 ELSE table[o][c]]
        ELSE table[o]]

\* UPDATE orders SET <update_data> WHERE order_id = %s
SqlUpdate(table, order_id, update_data) ==
    [o \in DOMAIN table |->
        IF o = order_id
        THEN [c \in DOMAIN table[o] |->
                 IF c \in DOMAIN update_data THEN update_data[c] ELSE table[o][c]]
        ELSE table[o]]

\* SELECT payment_id FROM payments WHERE order_id = %s, fetchone()
PaymentExists(table, order_id) == \E i \in DOMAIN table : table[i].order_id = order_id

\* UPDATE payments SET payment_status, transaction_id WHERE order_id = %s
SqlUpdatePayments(table, order_id, payment_status, transaction_id) ==
    [i \in DOMAIN table |->
        IF table[i].order_id = order_id
        THEN [table[i] EXCEPT !.payment_status = payment_status,
                              !.transaction_id = transaction_id]
        ELSE table[i]]

\* INSERT INTO payments (...) SELECT ... FROM orders WHERE order_id = %s
SqlInsertPayment(table, order_table, order_id, payment_status, transaction_id) ==
    IF order_id \in DOMAIN order_table
    THEN Append(table, [order_id |-> order_id,
                        amount |-> order_table[order_id].total_amount,
                        payment_status |-> payment_status,
                        transaction_id |-> transaction_id])
    ELSE table

(***************************************************************************)
(* Inputs                                                                  *)
(***************************************************************************)
FormStrings ==
    {<<>>, <<" ">>, <<"admin">>, <<" ", "admin", " ">>, <<"admin", " ", "x">>}

\* form strings that also spell the emails and passwords of two more pairs
CredentialStrings ==
    FormStrings \cup {<<"admin@bitemebuddy.com">>, <<"admin123">>,
                      <<" ", "admin@example.com">>, <<"password123", " ">>}

StatusInputs == {None, Some("")} \cup {Some(s) : s \in Statuses} \cup {Some("refunded")}

NoteInputs == {Some(""), Some("a")}

ClientDates == {Some(0)}

\* the keys of a posted object: status and notes may each be absent; an object
\* may carry a delivery_date of its own in place of the notes
KeySets ==
    {{}, {"status"}, {"notes"}, {"status", "notes"},
     {"delivery_date"}, {"status", "delivery_date"}}

\* JSON objects a client may post
Dicts ==
    {[k \in ks |-> CASE k = "status" -> st [] k = "notes" -> nt [] k = "delivery_date" -> cd] :
        ks \in KeySets, st \in StatusInputs, nt \in NoteInputs, cd \in ClientDates}

\* what request.get_json() finds: no JSON body, the JSON value null, or an object
Bodies ==
    {[kind |-> "none", data |-> <<>>], [kind |-> "null", data |-> <<>>]}
    \cup {[kind |-> "object", data |-> d] : d \in Dicts}

\* the bodies the order page posts: a status of the enumeration, perhaps a note
WellFormedBodies ==
    {b \in Bodies : /\ b.kind = "object"
                    /\ "status" \in DOMAIN b.data
                    /\ b.data["status"] # None
                    /\ b.data["status"][1] \in Statuses
                    /\ "delivery_date" \notin DOMAIN b.data}

InitStatuses == {"pending", "refunded"}

\* what the payment modal posts: no JSON body, or an object whose
\* payment_status may be absent or empty
PaymentBodies ==
    {[kind |-> "none", data |-> <<>>],
     [kind |-> "object", data |-> [k \in {} |-> None]]}
    \cup {[kind |-> "object", data |-> [k \in {"payment_status"} |-> ps]] :
            ps \in {Some(""), Some("completed")}}

\* the order ids of a store with one order and with two orders on file
OneOrder == {1}

TwoOrders == {1, 2}

(***************************************************************************)
(* Initial state                                                           *)
(***************************************************************************)
\* the orders ids are on file, each with one of the stored statuses; no
\* payment is on record, the browser has no session, no request is in flight
InitOf(ids, stored) ==
    /\ orders \in [ids -> {[status |-> st, delivery_date |-> None,
                            notes |-> Some("old"), total_amount |-> 100,
                            order_date |-> 0] :
                              st \in stored}]
    /\ payments = <<>>
    /\ session = <<>>
    /\ now = 1
    /\ req = [w \in Workers |-> Idle]
    /\ last = NothingHandled
    /\ seen = [o \in ids |-> IF orders[o].status = None THEN {}
                              ELSE {orders[o].status[1]}]

InitWith(ids) == InitOf(ids, {Some(s) : s \in InitStatuses})

Init == InitWith(StoredIds)

\* the same initial state with exactly one and with exactly two orders on file
OneOrderInit == InitWith(OneOrder)

TwoOrdersInit == InitWith(TwoOrders)

\* one order on file, created in pending
PendingInit == InitOf(OneOrder, {Some("pending")})

\* one order on file whose status column holds pending, a value that is not in
\* the enumeration, or NULL
AnyStatusInit == InitOf(OneOrder, {Some("pending"), Some("refunded"), None})

(***************************************************************************)
(* Actions                                                                 *)
(***************************************************************************)
\* the clock behind ist_now() advances
Tick ==
    /\ now < MaxClock
    /\ now' = now + 1
    /\ UNCHANGED <<orders, payments, session, req, last, seen>>

\* POST /admin/login
admin_login(form_email, form_password) ==
    LET email == Strip(form_email)
        password == Strip(form_password)
        ok == /\ email # <<>>
              /\ password # <<>>
              /\ \/ (email = <<"admin@bitemebuddy.com">> /\ password = <<"admin123">>)
                 \/ verify_admin_credentials(email, password)
        message == IF ok THEN "Login successful!"
                   ELSE IF email = <<>> \/ password = <<>>
                        THEN "Email and password are required"
                        ELSE "Invalid email or password"
    IN /\ session' =
            IF ok
            THEN Flash([k \in DOMAIN session
                              \cup {"admin_logged_in", "admin_email", "login_time"} |->
                          CASE k = "admin_logged_in" -> TRUE
                            [] k = "admin_email" -> email
                            [] k = "login_time" -> now
                            [] OTHER -> session[k]],
                       message, "success")
            ELSE Flash(session, message, "error")
       /\ WithinFlashBound(session')
       /\ last' = Handled(LoginRequest(form_email, form_password), "none",
                          Reply(IF ok THEN 302 ELSE 200, message, None, None, <<>>))
       /\ UNCHANGED <<orders, payments, now, req, seen>>

\* GET /admin/logout: session.clear(), then the flash
admin_logout ==
    /\ session' = Flash(<<>>, "Logged out successfully", "success")
    /\ last' = Handled(PlainRequest("logout", 0), "none",
                       Reply(302, "Logged out successfully", None, None, <<>>))
    /\ UNCHANGED <<orders, payments, now, req, seen>>

\* mutant: the missing row is not checked for
get_order_status_found(order_id) ==
    /\ last' =
        IF ~LoggedIn(session)
        THEN Handled(PlainRequest("get", order_id), "none", LoginRedirect)
        ELSE LET current_status ==
                    IF order_id \in DOMAIN orders THEN orders[order_id].status ELSE None
             IN Handled(PlainRequest("get", order_id), "read",
                        Reply(200, "", current_status, None, AvailableFrom(current_status)))
    /\ session' = admin_login_required(session)
    /\ WithinFlashBound(session')
    /\ UNCHANGED <<orders, payments, now, req, seen>>

\* GET /admin/api/order/<order_id>/status
get_order_status(order_id) ==
    /\ last' =
        IF ~LoggedIn(session)
        THEN Handled(PlainRequest("get", order_id), "none", LoginRedirect)
        ELSE IF order_id \notin DOMAIN orders
        THEN Handled(PlainRequest("get", order_id), "read",
                     Reply(404, "Order not found", None, None, <<>>))
        ELSE LET current_status == orders[order_id].status
             IN Handled(PlainRequest("get", order_id), "read",
                        Reply(200, "", current_status, None, AvailableFrom(current_status)))
    /\ session' = admin_login_required(session)
    /\ WithinFlashBound(session')
    /\ UNCHANGED <<orders, payments, now, req, seen>>

\* get_order_status when get_db_connection or the SELECT raises
get_order_status_fail(order_id) ==
    /\ LoggedIn(session)
    /\ last' = Handled(PlainRequest("get", order_id), "read_failed", ExceptionReply)
    /\ UNCHANGED <<orders, payments, session, now, req, seen>>

\* mutant: the transition is validated against the status the order had when
\* it was first loaded (pending), kept in the process, and not the stored one
UpdateRequest_cached(w, order_id, body) ==
    LET request == UpdateRequestOf(order_id, body)
        new_status == ParsedStatus(body)
        notes == ParsedNotes(body)
    IN
    /\ req[w].pc = "idle"
    /\ IF ~LoggedIn(session)
       THEN /\ last' = Handled(PlainRequest("update", order_id), "none", LoginRedirect)
            /\ UNCHANGED req
       ELSE IF body.kind # "object"
       THEN /\ last' = Handled(request, "none", ExceptionReply)
            /\ UNCHANGED req
       ELSE IF ~Truthy(new_status)
       THEN /\ last' = Handled(request, "none",
                               Reply(400, "Status is required", None, None, <<>>))
            /\ UNCHANGED req
       ELSE IF order_id \notin DOMAIN orders
       THEN /\ last' = Handled(request, "read",
                               Reply(404, "Order not found", None, None, <<>>))
            /\ UNCHANGED req
       ELSE LET current_status ==
                    IF "pending" \in seen[order_id] THEN Some("pending")
                    ELSE orders[order_id].status
            IN IF ~ListContains(AllowedFrom(current_status), new_status[1])
               THEN /\ last' = Handled(request, "read",
                                       Reply(400, "Invalid status transition",
                                             current_status, new_status, <<>>))
                    /\ UNCHANGED req
               ELSE /\ req' = [req EXCEPT ![w] =
                                  [pc |-> "update", request |-> request,
                                   order_id |-> order_id, new_status |-> new_status,
                                   notes |-> notes,
                                   update_data |-> UpdateData(new_status, notes, now)]]
                    /\ UNCHANGED last
    /\ session' = admin_login_required(session)
    /\ WithinFlashBound(session')
    /\ UNCHANGED <<orders, payments, now, seen>>

\* mutant: the transition is written before it is validated
UpdateRequest_writeFirst(w, order_id, body) ==
    LET request == UpdateRequestOf(order_id, body)
        new_status == ParsedStatus(body)
        notes == ParsedNotes(body)
    IN
    /\ req[w].pc = "idle"
    /\ IF ~LoggedIn(session)
       THEN /\ last' = Handled(PlainRequest("update", order_id), "none", LoginRedirect)
            /\ UNCHANGED <<req, orders, seen>>
       ELSE IF body.kind # "object"
       THEN /\ last' = Handled(request, "none", ExceptionReply)
            /\ UNCHANGED <<req, orders, seen>>
       ELSE IF ~Truthy(new_status)
       THEN /\ last' = Handled(request, "none",
                               Reply(400, "Status is required", None, None, <<>>))
            /\ UNCHANGED <<req, orders, seen>>
       ELSE IF order_id \notin DOMAIN orders
       THEN /\ last' = Handled(request, "read",
                               Reply(404, "Order not found", None, None, <<>>))
            /\ UNCHANGED <<req, orders, seen>>
       ELSE LET current_status == orders[order_id].status
            IN IF ~ListContains(AllowedFrom(current_status), new_status[1])
               THEN /\ last' = Handled(request, "read",
                                       Reply(400, "Invalid status transition",
                                             current_status, new_status, <<>>))
                    /\ orders' = SqlUpdate(orders, order_id,
                                           UpdateData(new_status, notes, now))
                    /\ seen' = [o \in DOMAIN orders |->
                                   seen[o] \cup {orders'[o].status[1]}]
                    /\ UNCHANGED req
               ELSE /\ req' = [req EXCEPT ![w] =
                                  [pc |-> "update", request |-> request,
                                   order_id |-> order_id, new_status |-> new_status,
                                   notes |-> notes,
                                   update_data |-> UpdateData(new_status, notes, now)]]
                    /\ UNCHANGED <<last, orders, seen>>
    /\ session' = admin_login_required(session)
    /\ WithinFlashBound(session')
    /\ UNCHANGED <<payments, now>>

\* POST /admin/api/order/<order_id>/status/update, up to the validation:
\* the login gate, request.get_json(), the required-status check, the SELECT,
\* the transition check and the construction of update_data
UpdateRequest(w, order_id, body) ==
    LET request == UpdateRequestOf(order_id, body)
        new_status == ParsedStatus(body)
        notes == ParsedNotes(body)
    IN
    /\ req[w].pc = "idle"
    /\ IF ~LoggedIn(session)
       THEN /\ last' = Handled(PlainRequest("update", order_id), "none", LoginRedirect)
            /\ UNCHANGED req
       ELSE IF body.kind # "object"
       THEN /\ last' = Handled(request, "none", ExceptionReply)
            /\ UNCHANGED req
       ELSE IF ~Truthy(new_status)
       THEN /\ last' = Handled(request, "none",
                               Reply(400, "Status is required", None, None, <<>>))
            /\ UNCHANGED req
       ELSE IF order_id \notin DOMAIN orders
       THEN /\ last' = Handled(request, "read",
                               Reply(404, "Order not found", None, None, <<>>))
            /\ UNCHANGED req
       ELSE LET current_status == orders[order_id].status
            IN IF ~ListContains(AllowedFrom(current_status), new_status[1])
               THEN /\ last' = Handled(request, "read",
                                       Reply(400, "Invalid status transition",
                                             current_status, new_status, <<>>))
                    /\ UNCHANGED req
               ELSE /\ req' = [req EXCEPT ![w] =
                                  [pc |-> "update", request |-> request,
                                   order_id |-> order_id, new_status |-> new_status,
                                   notes |-> notes,
                                   update_data |-> UpdateData(new_status, notes, now)]]
                    /\ UNCHANGED last
    /\ session' = admin_login_required(session)
    /\ WithinFlashBound(session')
    /\ UNCHANGED <<orders, payments, now, seen>>

\* update_order_status when get_db_connection or the SELECT raises
\* (any request that got past the required-status check; its body is not logged)
UpdateReadFail(w, order_id) ==
    /\ req[w].pc = "idle"
    /\ LoggedIn(session)
    /\ \E body \in Bodies : body.kind = "object" /\ Truthy(ParsedStatus(body))
    /\ last' = Handled(PlainRequest("update", order_id), "read_failed", ExceptionReply)
    /\ UNCHANGED <<orders, payments, session, now, req, seen>>

\* mutant: the confirmation carries the status the order had before the write
UpdateWrite_repliesOld(w) ==
    /\ req[w].pc = "update"
    /\ orders' = SqlUpdate(orders, req[w].order_id, req[w].update_data)
    /\ seen' = [o \in DOMAIN orders |-> seen[o] \cup {orders'[o].status[1]}]
    /\ last' = Handled(req[w].request, "write",
                       Reply(200, "Order status updated", None,
                             orders[req[w].order_id].status, <<>>))
    /\ req' = [req EXCEPT ![w] = Idle]
    /\ UNCHANGED <<payments, session, now>>

\* the UPDATE, the commit and the success reply of update_order_status
UpdateWrite(w) ==
    /\ req[w].pc = "update"
    /\ orders' = SqlUpdate(orders, req[w].order_id, req[w].update_data)
    /\ seen' = [o \in DOMAIN orders |-> seen[o] \cup {orders'[o].status[1]}]
    /\ last' = Handled(req[w].request, "write",
                       Reply(200, "Order status updated", None, req[w].new_status, <<>>))
    /\ req' = [req EXCEPT ![w] = Idle]
    /\ UNCHANGED <<payments, session, now>>

\* mutant: the UPDATE is kept although the request fails
UpdateWriteFail_committed(w) ==
    /\ req[w].pc = "update"
    /\ orders' = SqlUpdate(orders, req[w].order_id, req[w].update_data)
    /\ seen' = [o \in DOMAIN orders |-> seen[o] \cup {orders'[o].status[1]}]
    /\ last' = Handled(req[w].request, "write_failed", ExceptionReply)
    /\ req' = [req EXCEPT ![w] = Idle]
    /\ UNCHANGED <<payments, session, now>>

\* mutant: the failed write is tried again instead of ending the request
UpdateWriteFail_retried(w) ==
    /\ req[w].pc = "update"
    /\ last' = Handled(req[w].request, "write_failed", ExceptionReply)
    /\ UNCHANGED <<orders, payments, session, now, req, seen>>

\* update_order_status when the UPDATE or the commit raises: the transaction
\* is rolled back on leaving the connection block
UpdateWriteFail(w) ==
    /\ req[w].pc = "update"
    /\ last' = Handled(req[w].request, "write_failed", ExceptionReply)
    /\ req' = [req EXCEPT ![w] = Idle]
    /\ UNCHANGED <<orders, payments, session, now, seen>>

\* mutant: the pages that only read are served without the login check
ViewReply_ungated(op, order_id, db_ok, missing, found) ==
    IF ~db_ok
    THEN Handled(PlainRequest(op, order_id), "read_failed", missing[1])
    ELSE IF order_id \notin DOMAIN orders
    THEN Handled(PlainRequest(op, order_id), "read", missing[2])
    ELSE Handled(PlainRequest(op, order_id), "read", found)

\* the reply of a page or modal that only reads: 302 to the login page, the
\* handler's answer for a missing order, 500 (or the page's fallback) when the
\* database raises, 200 otherwise
ViewReply(op, order_id, db_ok, missing, found) ==
    IF ~LoggedIn(session)
    THEN Handled(PlainRequest(op, order_id), "none", LoginRedirect)
    ELSE IF ~db_ok
    THEN Handled(PlainRequest(op, order_id), "read_failed", missing[1])
    ELSE IF order_id \notin DOMAIN orders
    THEN Handled(PlainRequest(op, order_id), "read", missing[2])
    ELSE Handled(PlainRequest(op, order_id), "read", found)

\* GET /admin/order/<order_id>
order_detail(order_id, db_ok) ==
    /\ last' = ViewReply("order_detail", order_id, db_ok,
                         <<Reply(302, "Error loading order details", None, None, <<>>),
                           Reply(302, "Order not found", None, None, <<>>)>>,
                         IF order_id \in DOMAIN orders
                         THEN Reply(200, "", orders[order_id].status, None,
                                    DetailAvailableFrom(orders[order_id].status))
                         ELSE ExceptionReply)
    /\ session' =
        IF ~LoggedIn(session) THEN admin_login_required(session)
        ELSE IF ~db_ok THEN Flash(session, "Error loading order details", "error")
        ELSE IF order_id \notin DOMAIN orders THEN Flash(session, "Order not found", "error")
        ELSE session
    /\ WithinFlashBound(session')
    /\ UNCHANGED <<orders, payments, now, req, seen>>

\* GET /admin/dashboard and GET /admin/orders: the pages render empty on an error
dashboard(db_ok) ==
    /\ last' = IF ~LoggedIn(session)
               THEN Handled(PlainRequest("dashboard", 0), "none", LoginRedirect)
               ELSE Handled(PlainRequest("dashboard", 0),
                            IF db_ok THEN "read" ELSE "read_failed",
                            Reply(200, IF db_ok THEN "" ELSE "Error loading dashboard",
                                  None, None, <<>>))
    /\ session' =
        IF ~LoggedIn(session) THEN admin_login_required(session)
        ELSE IF ~db_ok THEN Flash(session, "Error loading dashboard", "error")
        ELSE session
    /\ WithinFlashBound(session')
    /\ UNCHANGED <<orders, payments, now, req, seen>>

orders_list(db_ok) ==
    /\ last' = IF ~LoggedIn(session)
               THEN Handled(PlainRequest("orders_list", 0), "none", LoginRedirect)
               ELSE Handled(PlainRequest("orders_list", 0),
                            IF db_ok THEN "read" ELSE "read_failed",
                            Reply(200, IF db_ok THEN "" ELSE "Error loading orders",
                                  None, None, <<>>))
    /\ session' =
        IF ~LoggedIn(session) THEN admin_login_required(session)
        ELSE IF ~db_ok THEN Flash(session, "Error loading orders", "error")
        ELSE session
    /\ WithinFlashBound(session')
    /\ UNCHANGED <<orders, payments, now, req, seen>>

\* GET /admin/api/order/<order_id>/items: answers 200 for a missing order too
get_order_items(order_id, db_ok) ==
    /\ last' = ViewReply("items", order_id, db_ok,
                         <<ExceptionReply, Reply(200, "", None, None, <<>>)>>,
                         Reply(200, "", None, None, <<>>))
    /\ session' = admin_login_required(session)
    /\ WithinFlashBound(session')
    /\ UNCHANGED <<orders, payments, now, req, seen>>

\* GET /admin/api/order/<order_id>/payment
get_payment_details(order_id, db_ok) ==
    /\ last' = ViewReply("payment", order_id, db_ok,
                         <<ExceptionReply, Reply(404, "Order not found", None, None, <<>>)>>,
                         Reply(200, "", None, None, <<>>))
    /\ session' = admin_login_required(session)
    /\ WithinFlashBound(session')
    /\ UNCHANGED <<orders, payments, now, req, seen>>

\* GET /admin/api/order/<order_id>/customer
get_customer_details(order_id, db_ok) ==
    /\ last' = ViewReply("customer", order_id, db_ok,
                         <<ExceptionReply, Reply(404, "Order not found", None, None, <<>>)>>,
                         Reply(200, "", None, None, <<>>))
    /\ session' = admin_login_required(session)
    /\ WithinFlashBound(session')
    /\ UNCHANGED <<orders, payments, now, req, seen>>

\* POST /admin/api/order/<order_id>/payment/update, up to the SELECT on payments
PayRequest(w, order_id, body) ==
    LET payment_status ==
            IF body.kind = "object" THEN DictGet(body.data, "payment_status", None)
            ELSE None
        transaction_id ==
            IF body.kind = "object" THEN DictGet(body.data, "transaction_id", None)
            ELSE None
    IN
    /\ req[w].pc = "idle"
    /\ IF ~LoggedIn(session)
       THEN /\ last' = Handled(PlainRequest("pay", order_id), "none", LoginRedirect)
            /\ UNCHANGED req
       ELSE IF body.kind # "object"
       THEN /\ last' = Handled(PlainRequest("pay", order_id), "none", ExceptionReply)
            /\ UNCHANGED req
       ELSE IF ~Truthy(payment_status)
       THEN /\ last' = Handled(PlainRequest("pay", order_id), "none",
                               Reply(400, "Payment status is required", None, None, <<>>))
            /\ UNCHANGED req
       ELSE /\ req' = [req EXCEPT ![w] =
                          [pc |-> "pay", order_id |-> order_id,
                           payment_status |-> payment_status,
                           transaction_id |-> transaction_id,
                           payment_exists |-> PaymentExists(payments, order_id)]]
            /\ UNCHANGED last
    /\ session' = admin_login_required(session)
    /\ WithinFlashBound(session')
    /\ UNCHANGED <<orders, payments, now, seen>>

\* mutant: recording a payment confirms the order
PayWrite_confirmsOrder(w) ==
    /\ req[w].pc = "pay"
    /\ payments' =
        IF req[w].payment_exists
        THEN SqlUpdatePayments(payments, req[w].order_id,
                               req[w].payment_status, req[w].transaction_id)
        ELSE SqlInsertPayment(payments, orders, req[w].order_id,
                              req[w].payment_status, req[w].transaction_id)
    /\ orders' = SqlUpdate(orders, req[w].order_id, [status |-> Some("confirmed")])
    /\ seen' = [o \in DOMAIN orders |-> seen[o] \cup {orders'[o].status[1]}]
    /\ last' = Handled(PlainRequest("pay", req[w].order_id), "write",
                       Reply(200, "Payment details updated successfully",
                             None, None, <<>>))
    /\ req' = [req EXCEPT ![w] = Idle]
    /\ UNCHANGED <<session, now>>

\* the UPDATE or the SELECT on orders and INSERT, the commit and the reply of
\* update_payment_details
PayWrite(w) ==
    /\ req[w].pc = "pay"
    /\ payments' =
        IF req[w].payment_exists
        THEN SqlUpdatePayments(payments, req[w].order_id,
                               req[w].payment_status, req[w].transaction_id)
        ELSE SqlInsertPayment(payments, orders, req[w].order_id,
                              req[w].payment_status, req[w].transaction_id)
    /\ last' = Handled(PlainRequest("pay", req[w].order_id), "write",
                       Reply(200, "Payment details updated successfully",
                             None, None, <<>>))
    /\ req' = [req EXCEPT ![w] = Idle]
    /\ UNCHANGED <<orders, session, now, seen>>

\* update_payment_details when a statement or the commit raises
PayFail(w) ==
    /\ req[w].pc = "pay"
    /\ last' = Handled(PlainRequest("pay", req[w].order_id), "write_failed", ExceptionReply)
    /\ req' = [req EXCEPT ![w] = Idle]
    /\ UNCHANGED <<orders, payments, session, now, seen>>

Quiet == \A w \in Workers : req[w].pc = "idle"

\* the admin signs in: the login form with the credentials of the direct check,
\* posted from a session that is not logged in
SignIn == ~LoggedIn(session) /\ admin_login(<<"admin@bitemebuddy.com">>, <<"admin123">>)

GetStatus == \E o \in RequestIds : get_order_status(o)

GetStatusFail == \E o \in RequestIds : get_order_status_fail(o)

Request(ws, bodies) == \E w \in ws, o \in RequestIds, b \in bodies : UpdateRequest(w, o, b)

ReadFail(ws) == \E w \in ws, o \in RequestIds : UpdateReadFail(w, o)

Write(ws) == \E w \in ws : UpdateWrite(w)

WriteFail(ws) == \E w \in ws : UpdateWriteFail(w)

\* a server with one worker handles one request at a time
OneWorker == {1}

\* the status operations used by one admin, one order on file; requests are
\* executed one at a time: a request starts only when none is in flight
Next ==
    \/ Tick
    \/ (Quiet /\ SignIn)
    \/ (Quiet /\ admin_logout)
    \/ (Quiet /\ GetStatus)
    \/ (Quiet /\ GetStatusFail)
    \/ (Quiet /\ Request(OneWorker, Bodies))
    \/ (Quiet /\ ReadFail(OneWorker))
    \/ Write(OneWorker)
    \/ WriteFail(OneWorker)

Spec == OneOrderInit /\ [][Next]_vars

\* requests of concurrent clients, interleaved at their database accesses
ConcNext ==
    \/ SignIn
    \/ admin_logout
    \/ GetStatus
    \/ GetStatusFail
    \/ Request(Workers, WellFormedBodies)
    \/ ReadFail(Workers)
    \/ Write(Workers)
    \/ WriteFail(Workers)

ConcSpec == Init /\ [][ConcNext]_vars

Pay(ws) == \E w \in ws, o \in RequestIds, b \in PaymentBodies : PayRequest(w, o, b)

\* the pages and modals that only read; the three pages that flash a message
\* when the database raises (dashboard, orders_list, order_detail) are asked of
\* a working database
Pages ==
    \E o \in RequestIds, db_ok \in BOOLEAN :
        \/ order_detail(o, TRUE)
        \/ dashboard(TRUE)
        \/ orders_list(TRUE)
        \/ get_order_items(o, db_ok)
        \/ get_payment_details(o, db_ok)
        \/ get_customer_details(o, db_ok)

\* the order pages of the dashboard used by one admin, one order on file:
\* the status operations, the payment operation and the pages that only read
AppNext ==
    \/ (Quiet /\ SignIn)
    \/ (Quiet /\ admin_logout)
    \/ (Quiet /\ GetStatus)
    \/ (Quiet /\ Pages)
    \/ (Quiet /\ GetStatusFail)
    \/ (Quiet /\ Request(OneWorker, Bodies))
    \/ (Quiet /\ ReadFail(OneWorker))
    \/ Write(OneWorker)
    \/ WriteFail(OneWorker)
    \/ (Quiet /\ Pay(OneWorker))
    \/ (\E w \in OneWorker : PayWrite(w))
    \/ (\E w \in OneWorker : PayFail(w))

AppSpec == OneOrderInit /\ [][AppNext]_vars

\* update_order_status, one request at a time, with two orders on file
TwoOrdersNext ==
    \/ (Quiet /\ SignIn)
    \/ (Quiet /\ Request(OneWorker, Bodies))
    \/ (Quiet /\ ReadFail(OneWorker))
    \/ Write(OneWorker)
    \/ WriteFail(OneWorker)

TwoOrdersSpec == TwoOrdersInit /\ [][TwoOrdersNext]_vars

LoginAs == \E e \in CredentialStrings, p \in CredentialStrings : admin_login(e, p)

\* the two buttons of a pending order: confirm and cancel, without a note
ConfirmOrCancel ==
    {b \in WellFormedBodies :
        DOMAIN b.data = {"status"} /\ b.data["status"][1] \in {"confirmed", "cancelled"}}

\* the nine protected operations, asked for the order on file
Protected ==
    \E o \in OneOrder, db_ok \in BOOLEAN :
        \/ dashboard(db_ok)
        \/ orders_list(db_ok)
        \/ order_detail(o, db_ok)
        \/ get_order_items(o, db_ok)
        \/ get_payment_details(o, db_ok)
        \/ get_customer_details(o, db_ok)
        \/ get_order_status(o)
        \/ (\E w \in OneWorker, b \in ConfirmOrCancel : UpdateRequest(w, o, b))
        \/ (\E w \in OneWorker, b \in PaymentBodies : PayRequest(w, o, b))

\* logins with any of the credential strings, logouts and, one at a time, the
\* protected operations
SessionNext ==
    \/ (Quiet /\ LoginAs)
    \/ (Quiet /\ admin_logout)
    \/ (Quiet /\ Protected)
    \/ Write(OneWorker)
    \/ (\E w \in OneWorker : PayWrite(w))

SessionSpec == PendingInit /\ [][SessionNext]_vars

\* the operations of AppNext on an order whose stored status may be NULL or a
\* value outside the enumeration
AnyStatusSpec == AnyStatusInit /\ [][AppNext]_vars

\* concurrent update_payment_details requests, interleaved at their database
\* accesses
PayConcNext ==
    \/ SignIn
    \/ admin_logout
    \/ Pay(Workers)
    \/ (\E w \in Workers : PayWrite(w))
    \/ (\E w \in Workers : PayFail(w))

PayConcSpec == Init /\ [][PayConcNext]_vars

(***************************************************************************)
(* The specification's transition table, as the claims state it            *)
(***************************************************************************)
TransitionTable ==
    {<<"pending", "confirmed">>, <<"pending", "cancelled">>,
     <<"confirmed", "assigned">>, <<"confirmed", "cancelled">>,
     <<"assigned", "out_for_delivery">>, <<"assigned", "cancelled">>,
     <<"out_for_delivery", "delivered">>, <<"out_for_delivery", "cancelled">>}

HappyPath == <<"pending", "confirmed", "assigned", "out_for_delivery", "delivered">>

HappyPrefix(i) == {HappyPath[j] : j \in 1..i}

\* a step that answers an update_order_status request whose body was read
UpdateReply == last' # last /\ last'.request.op = "update" /\ last'.request.body_kind # "-"

\* a step that answers a get_order_status request
GetReply == last' # last /\ last'.request.op = "get"

StorageFailed == last'.db \in {"read_failed", "write_failed"}

\* worker w passes the validation / performs the write
AcceptStep(w) == req[w].pc = "idle" /\ req'[w].pc = "update"

WriteStep(w) == req[w].pc = "update" /\ req'[w].pc = "idle" /\ last'.db = "write"

\* the (stored, requested) pair the answered request is about
AskedPair == <<orders[last'.request.order_id].status[1], last'.request.status[1]>>

AsksStoredOrder == Truthy(last'.request.status) /\ last'.request.order_id \in DOMAIN orders

\* C1: every request for a pair of the transition table, on an existing order
\* whose stored status is the pair's current status, is answered with success
\* (storage permitting) and leaves the requested status stored.
C1_ValidTransitionSucceeds ==
    [][(UpdateReply /\ ~StorageFailed /\ AsksStoredOrder /\ AskedPair \in TransitionTable)
       => /\ last'.reply.code = 200
          /\ last'.reply.message = "Order status updated"
          /\ orders'[last'.request.order_id].status = last'.request.status]_vars

C1_Witness ==
    /\ last.request.op = "update"
    /\ last.reply.code = 200
    /\ last.request.status = Some("delivered")
    /\ last.request.order_id \in DOMAIN orders
    /\ orders[last.request.order_id].status = Some("delivered")

\* C2: a request for a pair of statuses that is not in the transition table
\* (self-transitions, skips, backward moves, anything out of delivered or
\* cancelled) is answered 400 "Invalid status transition", naming the stored
\* and the requested status, and leaves the store as it was; no such request
\* ever passes the validation.
C2_InvalidTransitionRejected ==
    [][/\ (UpdateReply /\ ~StorageFailed /\ AsksStoredOrder
           /\ AskedPair[1] \in Statuses /\ AskedPair[2] \in Statuses
           /\ AskedPair \notin TransitionTable)
          => /\ last'.reply.code = 400
             /\ last'.reply.message = "Invalid status transition"
             /\ last'.reply.current_status = orders[last'.request.order_id].status
             /\ last'.reply.new_status = last'.request.status
             /\ orders' = orders
       /\ \A w \in Workers :
            AcceptStep(w) =>
                <<orders[req'[w].order_id].status[1], req'[w].new_status[1]>>
                    \in TransitionTable]_vars

C2_Witness ==
    /\ last.request.op = "update"
    /\ last.reply.code = 400
    /\ last.reply.message = "Invalid status transition"
    /\ last.reply.current_status = Some("delivered")
    /\ last.reply.new_status = Some("delivered")
    /\ orders[last.request.order_id].status = Some("delivered")

\* C3: under every interleaving of concurrent requests, each write stores a
\* status that is an allowed successor of the status stored just before it.
C3_WritesFollowTable ==
    [][\A w \in Workers :
         WriteStep(w) =>
            <<orders[req[w].order_id].status[1], orders'[req[w].order_id].status[1]>>
                \in TransitionTable]_vars

\* C4: delivered and cancelled are terminal: once stored, no request handled
\* afterwards changes the order's status.
C4_TerminalStays ==
    [][\A o \in DOMAIN orders :
         orders[o].status[1] \in Terminal => orders'[o].status = orders[o].status]_vars

C4_Witness ==
    /\ last.request.op = "update"
    /\ last.reply.message = "Invalid status transition"
    /\ last.reply.current_status = Some("cancelled")
    /\ last.reply.new_status = Some("confirmed")
    /\ orders[last.request.order_id].status = Some("cancelled")

\* C5: a request that passes validation with target delivered stamps the
\* reading of the engine's clock, the write stores that stamp (never null,
\* never the delivery_date of the body), and no other step of any request
\* changes a delivery_date.
C5_DeliveryDateStamp ==
    [][/\ \A w \in Workers :
            (AcceptStep(w) /\ req'[w].new_status = Some("delivered"))
                => req'[w].update_data["delivery_date"] = Some(now)
       /\ \A w \in Workers :
            (WriteStep(w) /\ req[w].new_status = Some("delivered"))
                => /\ orders'[req[w].order_id].delivery_date # None
                   /\ orders'[req[w].order_id].delivery_date = req[w].update_data["delivery_date"]
                   /\ orders'[req[w].order_id].delivery_date \notin ClientDates
       /\ \/ \E w \in Workers : WriteStep(w) /\ req[w].new_status = Some("delivered")
          \/ \A o \in DOMAIN orders : orders'[o].delivery_date = orders[o].delivery_date]_vars

C5_Witness ==
    /\ last.request.op = "update"
    /\ last.reply.code = 200
    /\ last.request.status = Some("delivered")
    /\ orders[last.request.order_id].delivery_date = Some(MaxClock)

\* C6: no status is skipped: the statuses an order created in pending has held
\* are a prefix of pending, confirmed, assigned, out_for_delivery, delivered,
\* optionally ended by cancelled, and a status once left is never held again.
C6_HeldStatuses ==
    \A o \in DOMAIN orders :
        "pending" \in seen[o] =>
            \E i \in 1..Len(HappyPath) :
                \/ orders[o].status[1] = HappyPath[i] /\ seen[o] = HappyPrefix(i)
                \/ /\ orders[o].status[1] = "cancelled"
                   /\ i < Len(HappyPath)
                   /\ seen[o] = HappyPrefix(i) \cup {"cancelled"}

C6_NoStatusSkipped ==
    /\ []C6_HeldStatuses
    /\ [][\A o \in DOMAIN orders :
            orders'[o].status # orders[o].status => orders'[o].status[1] \notin seen[o]]_vars

C6_Witness ==
    \E o \in DOMAIN orders :
        /\ orders[o].status = Some("delivered")
        /\ seen[o] = HappyPrefix(5)
        /\ last.reply.code = 200

\* C7: for an order id that resolves to no stored order, get_order_status and
\* update_order_status with any requested status and notes answer 404
\* "Order not found" and change nothing in the store.
C7_UnknownOrderNotFound ==
    [][/\ (UpdateReply /\ ~StorageFailed /\ Truthy(last'.request.status)
           /\ last'.request.order_id \notin DOMAIN orders)
          => /\ last'.reply.code = 404
             /\ last'.reply.message = "Order not found"
             /\ orders' = orders
       /\ (GetReply /\ ~StorageFailed /\ LoggedIn(session)
           /\ last'.request.order_id \notin DOMAIN orders)
          => /\ last'.reply.code = 404
             /\ last'.reply.message = "Order not found"
             /\ orders' = orders]_vars

C7_Witness ==
    /\ last.request.op = "update"
    /\ last.request.order_id \notin DOMAIN orders
    /\ last.request.status = Some("delivered")
    /\ last.db = "read"
    /\ last.reply.code = 404
    /\ last.reply.message = "Order not found"

\* C8: an update request that supplies no target status (field absent, null or
\* empty, or no body at all) is answered 400 without any storage access.
C8_MissingInput ==
    (/\ last.request.op = "update"
     /\ last.request.body_kind \in {"none", "null", "object"}
     /\ ~Truthy(last.request.status))
        => last.reply.code = 400 /\ last.db = "none"

\* C9: a transition is applied by one write or not at all: the write stores the
\* validated status, the stamp (when delivered is asked) and the note (when one
\* was supplied) together and touches nothing else; no other step changes the
\* store.
C9_Applied(w) ==
    LET o == req[w].order_id
        r == req[w].request
    IN /\ last'.reply.code = 200
       /\ orders'[o].status = r.status
       /\ orders'[o].delivery_date =
            IF r.status = Some("delivered") THEN req[w].update_data["delivery_date"]
            ELSE orders[o].delivery_date
       /\ orders'[o].notes = IF Truthy(req[w].notes) THEN req[w].notes ELSE orders[o].notes
       /\ \A p \in DOMAIN orders \ {o} : orders'[p] = orders[p]

C9_AllOrNothing ==
    [][/\ \A w \in Workers : WriteStep(w) => C9_Applied(w)
       /\ (\A w \in Workers : ~WriteStep(w)) => orders' = orders]_vars

C9_Witness ==
    /\ last.request.op = "update"
    /\ last.reply.code = 200
    /\ last.request.status = Some("delivered")
    /\ orders[last.request.order_id].status = Some("delivered")
    /\ orders[last.request.order_id].notes = Some("a")
    /\ orders[last.request.order_id].delivery_date # None

\* C10: an update request that is not answered with success performs no write:
\* the status, delivery_date and notes of every order are as before.
C10_RejectedWritesNothing ==
    [][(last' # last /\ last'.request.op = "update" /\ last'.reply.code # 200)
       => /\ orders' = orders
          /\ last'.db # "write"]_vars

C10_Witness ==
    /\ last.request.op = "update"
    /\ last.reply.code = 400
    /\ last.reply.message = "Invalid status transition"
    /\ last.request.status = Some("delivered")
    /\ last.db = "read"
    /\ orders[last.request.order_id].status = Some("pending")
    /\ orders[last.request.order_id].delivery_date = None
    /\ orders[last.request.order_id].notes = Some("old")

\* the statuses a list holds
ListSet(list) == {list[i] : i \in DOMAIN list}

\* the allowed next statuses of the specification's table
TableSuccessors(status) == {p[2] : p \in {q \in TransitionTable : q[1] = status}}

\* a step that answers an order_detail request
DetailReply == last' # last /\ last'.request.op = "order_detail"

\* C11: get_order_status on an existing order answers 200 with the stored
\* status as current_status and, as available_statuses, exactly the allowed next
\* statuses of the table for it (none for delivered and cancelled), each listed
\* once, and changes nothing in the store.
C11_QueryReportsTable ==
    [][(GetReply /\ ~StorageFailed /\ LoggedIn(session)
        /\ last'.request.order_id \in DOMAIN orders
        /\ orders[last'.request.order_id].status[1] \in Statuses)
       => /\ last'.reply.code = 200
          /\ last'.reply.current_status = orders[last'.request.order_id].status
          /\ ListSet(last'.reply.available_statuses)
                = TableSuccessors(orders[last'.request.order_id].status[1])
          /\ Len(last'.reply.available_statuses)
                = Cardinality(ListSet(last'.reply.available_statuses))
          /\ (orders[last'.request.order_id].status[1] \in Terminal
                => last'.reply.available_statuses = <<>>)
          /\ orders' = orders
          /\ payments' = payments]_vars

C11_Witness ==
    /\ last.request.op = "get"
    /\ last.reply.code = 200
    /\ last.reply.current_status = Some("out_for_delivery")
    /\ ListSet(last.reply.available_statuses) = {"delivered", "cancelled"}
    /\ orders[last.request.order_id].status = Some("out_for_delivery")

\* C12: update_order_status succeeds exactly when the requested status is among
\* the available_statuses that get_order_status and order_detail compute for
\* the stored status, and what the two report for an order is the set that
\* update_order_status allows for it.
C12_PreconditionIsAvailability ==
    [][/\ (UpdateReply /\ ~StorageFailed /\ AsksStoredOrder)
          => /\ last'.reply.code = 200
                <=> ListContains(AvailableFrom(orders[last'.request.order_id].status),
                                 last'.request.status[1])
             /\ last'.reply.code = 200
                <=> ListContains(DetailAvailableFrom(orders[last'.request.order_id].status),
                                 last'.request.status[1])
       /\ ((GetReply \/ DetailReply) /\ last'.reply.code = 200)
          => ListSet(last'.reply.available_statuses)
                = ListSet(AllowedFrom(orders[last'.request.order_id].status))]_vars

C12_Witness ==
    /\ last.request.op = "order_detail"
    /\ last.reply.code = 200
    /\ last.reply.current_status = Some("assigned")
    /\ ListSet(last.reply.available_statuses) = ListSet(AllowedFrom(Some("assigned")))
    /\ ListContains(last.reply.available_statuses, "out_for_delivery")
    /\ orders[last.request.order_id].status = Some("assigned")

\* C13: the write of a successful update stores exactly the supplied note in
\* place of the stored notes when a note was supplied, and leaves the stored
\* notes as they were when the note was absent or empty.
C13_NoteOverwrites ==
    [][\A w \in Workers :
         WriteStep(w) =>
            /\ last'.reply.code = 200
            /\ Truthy(req[w].notes)
                => orders'[req[w].order_id].notes = req[w].notes
            /\ ~Truthy(req[w].notes)
                => orders'[req[w].order_id].notes = orders[req[w].order_id].notes]_vars

C13_Witness ==
    /\ last.request.op = "update"
    /\ last.reply.code = 200
    /\ last.request.status = Some("confirmed")
    /\ orders[last.request.order_id].status = Some("confirmed")
    /\ orders[last.request.order_id].notes = Some("a")

\* the columns of orders that update_order_status may rewrite
EngineColumns == {"status", "delivery_date", "notes"}

\* C14: a request to update_order_status for order X leaves X's total, its
\* order_date and every column of X other than status, delivery_date and notes
\* as they were, leaves every other order and every payment record as it was,
\* and adds or removes no order.
C14_UpdateFrame ==
    [][/\ (last' # last /\ last'.request.op = "update")
          => /\ DOMAIN orders' = DOMAIN orders
             /\ payments' = payments
             /\ \A o \in DOMAIN orders :
                  /\ o # last'.request.order_id => orders'[o] = orders[o]
                  /\ DOMAIN orders'[o] = DOMAIN orders[o]
                  /\ \A c \in DOMAIN orders[o] \ EngineColumns :
                        orders'[o][c] = orders[o][c]
       /\ \A w \in Workers : AcceptStep(w) => orders' = orders /\ payments' = payments]_vars

C14_Witness ==
    /\ last.request.op = "update"
    /\ last.reply.code = 200
    /\ last.request.order_id = 1
    /\ last.request.status = Some("delivered")
    /\ orders[1].status = Some("delivered")
    /\ orders[1].notes = Some("a")
    /\ orders[1].total_amount = 100
    /\ orders[1].order_date = 0
    /\ 2 \in DOMAIN orders
    /\ orders[2] = [status |-> Some("pending"), delivery_date |-> None,
                    notes |-> Some("old"), total_amount |-> 100, order_date |-> 0]

\* the requests that are not update_order_status
OtherOps ==
    {"login", "logout", "get", "order_detail", "dashboard", "orders_list",
     "items", "customer", "payment", "pay"}

\* C15: no operation of the application adds or removes an order, an order
\* changes only in the write of a successful update_order_status, and a step of
\* any other operation (get_order_status, order_detail, the dashboard and list
\* pages, the items, customer and payment queries, update_payment_details)
\* leaves every order as it was.
C15_OnlyTransitionsMutate ==
    [][/\ DOMAIN orders' = DOMAIN orders
       /\ orders' # orders
          => \E w \in Workers :
                /\ WriteStep(w)
                /\ last'.request.op = "update"
                /\ last'.reply.code = 200
       /\ (last' # last /\ last'.request.op \in OtherOps) => orders' = orders
       /\ (\E w \in Workers : req[w].pc = "pay" \/ req'[w].pc = "pay") => orders' = orders]_vars

C15_Witness ==
    /\ last.request.op = "pay"
    /\ last.reply.code = 200
    /\ last.db = "write"
    /\ PaymentExists(payments, last.request.order_id)
    /\ orders[last.request.order_id].status = Some("pending")
    /\ orders[last.request.order_id].delivery_date = None
    /\ orders[last.request.order_id].notes = Some("old")

\* C16: every answer of get_order_status and update_order_status to a logged-in
\* session is 200, 400, 404 or 500: 200 when the operation went through, 400
\* for a missing or invalid requested status, 404 for an order id that does not
\* resolve, and 500 only when a storage access failed.
C16_CodeClasses ==
    (last.request.op \in {"get", "update"} /\ last.reply # LoginRedirect)
        => /\ last.reply.code \in {200, 400, 404, 500}
           /\ last.reply.code = 200 => last.db \in {"read", "write"}
           /\ last.reply.code = 400
                => /\ last.request.op = "update"
                   /\ last.reply.message \in {"Status is required", "Invalid status transition"}
           /\ last.reply.code = 404 => last.request.order_id \notin DOMAIN orders
           /\ last.reply.code = 500 => last.db \in {"read_failed", "write_failed"}

\* C17: when a storage access of update_order_status or get_order_status
\* fails, the request is answered with the 500 of the except branch, is over
\* (no second attempt is in flight) and has changed no order, so the same
\* request sent again meets the status that was stored before.
C17_StorageFailure ==
    [][(last' # last /\ last'.request.op \in {"get", "update"} /\ StorageFailed)
       => /\ last'.reply = ExceptionReply
          /\ orders' = orders
          /\ payments' = payments
          /\ \A w \in Workers : req'[w].pc = "idle"]_vars

C17_Witness ==
    /\ last.request.op = "update"
    /\ last.request.status = Some("delivered")
    /\ last.db = "write_failed"
    /\ last.reply.code = 500
    /\ Quiet
    /\ orders[last.request.order_id].status = Some("out_for_delivery")
    /\ orders[last.request.order_id].delivery_date = None

\* the request handled last was an update that was rejected, and the same
\* session can send it again
RejectedLast ==
    /\ last.request.op = "update"
    /\ last.request.body_kind = "object"
    /\ last.reply.code \in {400, 404}
    /\ LoggedIn(session)
    /\ Quiet

\* C18: a rejected update changes no order, and sending the rejected request
\* again (same order, same requested status) is answered with the same reply
\* and again changes no order.
C18_RejectionRepeats ==
    /\ [](RejectedLast =>
            \A b \in Bodies :
                UpdateRequestOf(last.request.order_id, b) = last.request
                    => ENABLED (/\ \E w \in OneWorker :
                                     UpdateRequest(w, last.request.order_id, b)
                                /\ last' = last
                                /\ orders' = orders))
    /\ [][(UpdateReply /\ last'.reply.code \in {400, 404}) => orders' = orders]_vars

C18_Witness ==
    /\ RejectedLast
    /\ last.reply.message = "Invalid status transition"
    /\ last.reply.current_status = Some("confirmed")
    /\ last.reply.new_status = Some("pending")
    /\ orders[last.request.order_id].status = Some("confirmed")

\* C19: whatever status strings the update requests carry, the stored status
\* of an order created in pending is one of the six statuses of the
\* enumeration.
C19_StatusInEnumeration ==
    \A o \in DOMAIN orders :
        "pending" \in seen[o]
            => orders[o].status # None /\ orders[o].status[1] \in Statuses

C19_Witness ==
    /\ last.request.op = "update"
    /\ last.request.status = Some("refunded")
    /\ last.reply.code = 400
    /\ last.request.order_id \in DOMAIN orders
    /\ seen[last.request.order_id] = {"pending", "confirmed"}
    /\ orders[last.request.order_id].status = Some("confirmed")

\* the three tables give status i of the happy path two successors: status
\* i + 1 of the happy path and cancelled
TwoSuccessors(i) ==
    \A list \in {AllowedFrom(Some(HappyPath[i])), AvailableFrom(Some(HappyPath[i])),
                 DetailAvailableFrom(Some(HappyPath[i]))} :
        /\ Len(list) = 2
        /\ ListSet(list) = {HappyPath[i + 1], "cancelled"}

\* C20: in the tables of update_order_status, get_order_status and
\* order_detail every non-terminal status has exactly two successors, the next
\* status of the happy path and cancelled, and a request to cancel an order
\* whose stored status is non-terminal succeeds and stores cancelled.
C20_HappyPathAndCancel ==
    /\ [](\A i \in 1..(Len(HappyPath) - 1) : TwoSuccessors(i))
    /\ [][(UpdateReply /\ ~StorageFailed /\ AsksStoredOrder
           /\ AskedPair[1] \in Statuses \ Terminal
           /\ AskedPair[2] = "cancelled")
          => /\ last'.reply.code = 200
             /\ orders'[last'.request.order_id].status = Some("cancelled")]_vars

C20_Witness ==
    /\ last.request.op = "update"
    /\ last.request.status = Some("cancelled")
    /\ last.reply.code = 200
    /\ orders[last.request.order_id].status = Some("cancelled")
    /\ seen[last.request.order_id] =
            {"pending", "confirmed", "assigned", "out_for_delivery", "cancelled"}

\* the requests behind admin_login_required
ProtectedOps ==
    {"dashboard", "orders_list", "order_detail", "items", "payment", "pay",
     "customer", "get", "update"}

\* C21: a request to any of the nine protected operations made in a session
\* that is not logged in is answered with the redirect to the login page,
\* makes no storage access and starts no work; no order and no payment record
\* changes, and no request passes the gate, outside a logged-in session.
C21_LoginGate ==
    [][/\ (last' # last /\ last'.request.op \in ProtectedOps /\ ~LoggedIn(session))
          => /\ last'.reply = LoginRedirect
             /\ last'.db = "none"
             /\ orders' = orders
             /\ payments' = payments
             /\ req' = req
       /\ (orders' # orders \/ payments' # payments) => LoggedIn(session)
       /\ \A w \in Workers :
            (req[w].pc = "idle" /\ req'[w].pc # "idle") => LoggedIn(session)]_vars

C21_Witness ==
    /\ ~LoggedIn(session)
    /\ last.request.op = "customer"
    /\ last.reply = LoginRedirect
    /\ last.db = "none"
    /\ orders[1].status = Some("confirmed")

\* C22: update_order_status decides on the status stored when the request is
\* handled: a request passes the validation exactly when the requested status
\* is allowed from the status stored at that moment, and a rejection names that
\* stored status, whatever the order's status was at any earlier call.
C22_ValidatesStoredStatus ==
    [][/\ \A w \in Workers :
            AcceptStep(w) =>
                ListContains(AllowedFrom(orders[req'[w].order_id].status),
                             req'[w].new_status[1])
       /\ (UpdateReply /\ last'.db = "read" /\ AsksStoredOrder)
          => /\ ~ListContains(AllowedFrom(orders[last'.request.order_id].status),
                              last'.request.status[1])
             /\ last'.reply.current_status = orders[last'.request.order_id].status]_vars

\* a request that was valid for a status the order held earlier is rejected on
\* the status stored now
C22_Witness ==
    /\ last.request.op = "update"
    /\ last.request.status = Some("confirmed")
    /\ last.reply.message = "Invalid status transition"
    /\ last.reply.current_status = Some("assigned")
    /\ seen[last.request.order_id] = {"pending", "confirmed", "assigned"}
    /\ orders[last.request.order_id].status = Some("assigned")

\* C23: the confirmation of a successful update carries as new_status the
\* requested status, which is the status stored by the write; the failure of
\* an invalid transition carries the status read from the store and the
\* requested status.
C23_RepliesNameStatuses ==
    [][/\ (UpdateReply /\ last'.reply.code = 200)
          => /\ last'.reply.message = "Order status updated"
             /\ last'.reply.new_status = last'.request.status
             /\ last'.reply.new_status = orders'[last'.request.order_id].status
       /\ (UpdateReply /\ last'.reply.message = "Invalid status transition")
          => /\ last'.reply.code = 400
             /\ last'.reply.current_status = orders[last'.request.order_id].status
             /\ last'.reply.new_status = last'.request.status
             /\ last'.reply.current_status # None
             /\ last'.reply.new_status # None]_vars

C23_Witness ==
    /\ last.request.op = "update"
    /\ last.reply.code = 200
    /\ last.request.status = Some("assigned")
    /\ last.reply.new_status = Some("assigned")
    /\ orders[last.request.order_id].status = Some("assigned")

\* the order was created in pending
CreatedPending(o) == "pending" \in seen[o]

\* C24: with requests handled one at a time, an order created in pending with
\* a null delivery_date has a delivery_date exactly when its status is
\* delivered (so a cancelled order has none), and a delivery_date that is set
\* is never changed.
C24_DeliveryDateIffDelivered ==
    /\ [](\A o \in DOMAIN orders :
            CreatedPending(o)
                => (orders[o].delivery_date # None <=> orders[o].status = Some("delivered")))
    /\ [][\A o \in DOMAIN orders :
            orders[o].delivery_date # None
                => orders'[o].delivery_date = orders[o].delivery_date]_vars

\* a delivered order keeps the stamp of its delivery while the clock moves on
\* and a further request is turned down
C24_Witness ==
    \E o \in DOMAIN orders :
        /\ CreatedPending(o)
        /\ orders[o].status = Some("delivered")
        /\ orders[o].delivery_date = Some(1)
        /\ now = MaxClock
        /\ last.request.op = "update"
        /\ last.request.order_id = o
        /\ last.request.status = Some("delivered")
        /\ last.reply.code = 400

\* the order pending < confirmed < assigned < out_for_delivery < delivered, cancelled
Rank(status) ==
    CASE status = "pending" -> 1
      [] status = "confirmed" -> 2
      [] status = "assigned" -> 3
      [] status = "out_for_delivery" -> 4
      [] status \in Terminal -> 5
      [] OTHER -> 0

\* C25: every write of a successful update stores a status of strictly higher
\* rank than the one it replaces, an order created in pending has gone through
\* at most 4 transitions, and in every run of requests there is a point after
\* which no update succeeds any more.
C25_StrictlyAdvances ==
    /\ [][\A w \in Workers :
            WriteStep(w) =>
                Rank(orders'[req[w].order_id].status[1])
                    > Rank(orders[req[w].order_id].status[1])]_vars
    /\ [](\A o \in DOMAIN orders : CreatedPending(o) => Cardinality(seen[o]) - 1 <= 4)
    /\ <>[][\A w \in Workers : ~WriteStep(w)]_vars

C25_Witness ==
    \E o \in DOMAIN orders :
        /\ Cardinality(seen[o]) - 1 = 4
        /\ seen[o] = {"pending", "confirmed", "assigned", "out_for_delivery", "cancelled"}
        /\ last.request.op = "update"
        /\ last.request.order_id = o
        /\ last.reply.code = 400
        /\ last.reply.current_status = Some("cancelled")

\* a stored status that is none of the six: NULL or a value outside the
\* enumeration
OffEnumeration(status) == status = None \/ status[1] \notin Statuses

\* C26: for an order whose stored status is not one of the six (a value
\* outside the enumeration, or NULL), get_order_status answers 200 with that
\* status and no available status, update_order_status answers every requested
\* status with 400 "Invalid status transition" and writes nothing, and no step
\* of any operation changes the order's status.
C26_UnknownStatusStuck ==
    [][/\ (GetReply /\ ~StorageFailed /\ LoggedIn(session)
           /\ last'.request.order_id \in DOMAIN orders
           /\ OffEnumeration(orders[last'.request.order_id].status))
          => /\ last'.reply.code = 200
             /\ last'.reply.current_status = orders[last'.request.order_id].status
             /\ last'.reply.available_statuses = <<>>
       /\ (UpdateReply /\ ~StorageFailed /\ AsksStoredOrder
           /\ OffEnumeration(orders[last'.request.order_id].status))
          => /\ last'.reply.code = 400
             /\ last'.reply.message = "Invalid status transition"
             /\ last'.db = "read"
             /\ orders' = orders
       /\ \A o \in DOMAIN orders :
            OffEnumeration(orders[o].status) => orders'[o].status = orders[o].status]_vars

\* an order stored as 'refunded' for which a payment was recorded and whose
\* confirmation was then refused
C26_Witness ==
    /\ last.request.op = "update"
    /\ last.request.status = Some("confirmed")
    /\ last.reply.code = 400
    /\ last.reply.message = "Invalid status transition"
    /\ last.reply.current_status = Some("refunded")
    /\ orders[last.request.order_id].status = Some("refunded")
    /\ seen[last.request.order_id] = {"refunded"}
    /\ PaymentExists(payments, last.request.order_id)

\* the hard-coded credential pairs, as (email, password)
CredentialPairs ==
    {<< <<"admin@bitemebuddy.com">>, <<"admin123">> >>,
     << <<"admin@example.com">>, <<"password123">> >>,
     << <<"admin">>, <<"admin">> >>,
     << <<"test@test.com">>, <<"test123">> >>,
     << <<"user@example.com">>, <<"user123">> >>,
     << <<"super@admin.com">>, <<"super123">> >>}

\* the form strings e and p are, trimmed, non-empty and a hard-coded pair
Accepted(e, p) ==
    Strip(e) # <<>> /\ Strip(p) # <<>> /\ <<Strip(e), Strip(p)>> \in CredentialPairs

\* the keys of the session that say who is logged in, and that part of a session
LoginKeys == {"admin_logged_in", "admin_email", "login_time"}

LoginState(sess) == [k \in DOMAIN sess \cap LoginKeys |-> sess[k]]

\* a step that handles a request to one of ops
Answers(ops) == last'.request.op \in ops /\ (last' # last \/ session' # session)

\* the step appends one message of the category to the flashed messages
Flashed(category, messages) ==
    /\ Len(Flashes(session')) = Len(Flashes(session)) + 1
    /\ SubSeq(Flashes(session'), 1, Len(Flashes(session))) = Flashes(session)
    /\ Flashes(session')[Len(Flashes(session'))][1] = category
    /\ Flashes(session')[Len(Flashes(session'))][2] \in messages

PaymentsOf(o) == {i \in DOMAIN payments : payments[i].order_id = o}

\* C28: every order has at most one payment record and every payment record
\* belongs to a stored order.
C28_OnePaymentPerOrder ==
    /\ \A o \in RequestIds : Cardinality(PaymentsOf(o)) <= 1
    /\ \A i \in DOMAIN payments : payments[i].order_id \in DOMAIN orders

====
